---- MODULE Spec2Model ----
(***************************************************************************)
(* Model of scripts/validate_rules.py: the multi-target validation run of  *)
(* main(), with its helpers find_files, load_payload, validate_document,   *)
(* extract_rule_ids, extract_referenced_rule_ids and                       *)
(* validate_ge_suite_shape.                                                *)
(*                                                                         *)
(* Strings that the code orders (rule identifiers, file paths) are         *)
(* sequences of code points; a structural path is a sequence of tokens.    *)
(* Both are compared as Python compares str and list: element by element,  *)
(* a strict prefix first.  A parsed value keeps exactly what the code      *)
(* inspects: its root shape, which fields are strings or lists, and the    *)
(* violations the schema validator yields for it, in the order yielded.    *)
(* The --verbose flag only adds trace lines before the summary and is not  *)
(* modelled.                                                               *)
(***************************************************************************)
EXTENDS Integers, Sequences, FiniteSets, TLC

\* ------------------------------------------------------------------ bounds

\* Supported files in the whole tree (all four search directories together).
MaxFiles == 2
\* Targets whose schema file is not a usable schema.
MaxBadSchemas == 1
\* Elements of the "expectations" list of an enumerated suite file.
MaxExpectations == 3
\* Elements of an enumerated list document.
MaxItems == 3
\* Violations the validator yields for one enumerated dict.
MaxViolations == 3

\* ------------------------------------------------ the three targets (main)

Targets == {1, 2, 3}

\* ValidationTarget.name
TargetName(t) ==
    CASE t = 1 -> "rule definitions"
      [] t = 2 -> "dataset configs"
      [] t = 3 -> "semantic types"

\* Search directories: 1 rules/core, 2 rules/extensions, 3 rules/datasets,
\* 4 rules/semantic_types.
Bases == {1, 2, 3, 4}

\* ValidationTarget.search_paths, in order.
SearchPaths(t) ==
    CASE t = 1 -> <<1, 2>>
      [] t = 2 -> <<3>>
      [] t = 3 -> <<4>>

BaseTarget(b) == IF b \in {1, 2} THEN 1 ELSE IF b = 3 THEN 2 ELSE 3

\* ------------------------------------------------------- Python orderings

\* a < b for two str or two list values: element by element, a strict
\* prefix of the other first.
RECURSIVE LexLess(_, _)
LexLess(a, b) ==
    IF a = <<>> THEN b # <<>>
    ELSE IF b = <<>> THEN FALSE
    ELSE IF Head(a) = Head(b) THEN LexLess(Tail(a), Tail(b))
    ELSE Head(a) < Head(b)

\* sorted(S) for a set of strings.
RECURSIVE SortedSet(_)
SortedSet(S) ==
    IF S = {} THEN <<>>
    ELSE LET m == CHOOSE x \in S : \A y \in S \ {x} : LexLess(x, y)
         IN  <<m>> \o SortedSet(S \ {m})

\* One step of the stable sort: e goes after every element whose key is not
\* greater than its own.
RECURSIVE InsertByPath(_, _)
InsertByPath(e, s) ==
    IF s = <<>> THEN <<e>>
    ELSE IF LexLess(e.path, Head(s).path) THEN <<e>> \o s
    ELSE <<Head(s)>> \o InsertByPath(e, Tail(s))

SortByPath_Unsorted(errs) == errs

\* sorted(errs, key=lambda err: list(err.absolute_path)): stable.
RECURSIVE SortByPath(_)
SortByPath(errs) ==
    IF errs = <<>> THEN <<>>
    ELSE InsertByPath(errs[Len(errs)], SortByPath(SubSeq(errs, 1, Len(errs) - 1)))

\* pointer_from_path: "$", then "/token" for each token.
pointer_from_path(path_tokens) == [root |-> "$", tokens |-> path_tokens]

\* ------------------------------------------------------------ parsed values

\* A field that the code tests with isinstance(x, str): the set holding the
\* string when it is one, the empty set when the field is absent or of
\* another type.
NotStr == {}
Str(s) == {s}

\* A field that the code tests with isinstance(x, list).
NotList == [islist |-> FALSE, elems |-> <<>>]
List(es) == [islist |-> TRUE, elems |-> es]

\* One violation yielded by validator.iter_errors: err.absolute_path and
\* err.message.
Violation(p, m) == [path |-> p, msg |-> m]

\* A value: a dict (with the fields the code reads) or not, and the
\* violations the target's schema finds in it, in the order the validator
\* yields them when it is asked.
Obj(rid, rules, defaults, viol) ==
    [isobj |-> TRUE, rule_id |-> rid, rules |-> rules,
     default_rules |-> defaults, viol |-> viol]
NonObj(viol) ==
    [isobj |-> FALSE, rule_id |-> NotStr, rules |-> NotList,
     default_rules |-> NotList, viol |-> viol]

\* An entry of "rules": a dict with its rule_id field, or something else.
Ref(rid) == [isobj |-> TRUE, rule_id |-> rid]
NonObjRef == [isobj |-> FALSE, rule_id |-> NotStr]

\* What a directory entry is and what load_payload makes of it.
\*   entry: "file" (a regular file with a supported suffix), "other" (a
\*          directory, or a file with another suffix)
\*   load : "ok" or "error" (read_text, json.loads or yaml.safe_load raises)
\*   root : "object" (dict), "list", "other" (scalar or null)
\*   items: the elements of a list, else the root value itself
Document(root, items) ==
    [entry |-> "file", load |-> "ok", root |-> root, items |-> items]
Unparseable ==
    [entry |-> "file", load |-> "error", root |-> "other", items |-> <<>>]
Unsupported ==
    [entry |-> "other", load |-> "error", root |-> "other", items |-> <<>>]
Scalar(viol) == Document("other", <<NonObj(viol)>>)

Range(s) == {s[i] : i \in DOMAIN s}

\* --------------------------------------------------------- the error lines

NoPointer == [root |-> "", tokens |-> <<>>]

\* A path is <<directory, name>>: directory 0 is schemas/, 1..4 are the
\* search directories, 5 is integrations/great_expectations/suites.
SchemaPath(t) == <<0, t>>
SuitePath == <<5, 1>>

\* One line of all_errors: the kind of message, the path it starts with, the
\* list index in brackets (-1 when there is none), the pointer and the
\* library's message (0 when there is none).
Error(kind, path, index, pointer, msg) ==
    [kind |-> kind, path |-> path, index |-> index, pointer |-> pointer,
     msg |-> msg]

\* ------------------------------------------------------- validate_document

\* validator.iter_errors(item) for the target's schema.
iter_errors(item) == item.viol

\* The lines for one dict: its violations sorted by path, then formatted.
ItemErrors(item, file_path, index) ==
    LET item_errors == SortByPath(iter_errors(item))
    IN  [k \in 1..Len(item_errors) |->
            Error("violation", file_path, index,
                  pointer_from_path(item_errors[k].path), item_errors[k].msg)]

\* The loop over enumerate(payload), from position k (1-based; the index the
\* code prints is k - 1).
RECURSIVE ListErrors(_, _, _)
ListErrors(items, file_path, k) ==
    IF k > Len(items) THEN <<>>
    ELSE (IF ~items[k].isobj
          THEN <<Error("expected object", file_path, k - 1, NoPointer, 0)>>
          ELSE ItemErrors(items[k], file_path, k - 1))
         \o ListErrors(items, file_path, k + 1)

\* validate_document without the guard of line 112.
validate_document_ChecksScalars(payload, file_path) ==
    IF payload.root = "list" THEN ListErrors(payload.items, file_path, 1)
    ELSE ItemErrors(payload.items[1], file_path, -1)

validate_document(payload, file_path) ==
    IF payload.root = "list" THEN ListErrors(payload.items, file_path, 1)
    ELSE IF payload.root # "object"
    THEN <<Error("expected object or list", file_path, -1, NoPointer, 0)>>
    ELSE ItemErrors(payload.items[1], file_path, -1)

\* Whether validate_document calls the validator at all on this payload.
UsesValidator(payload) ==
    \/ payload.root = "object"
    \/ payload.root = "list" /\ \E i \in DOMAIN payload.items : payload.items[i].isobj

\* ------------------------------------------------------------ extraction

extract_rule_ids_RootOnly(payload) ==
    IF payload.root = "object" THEN payload.items[1].rule_id ELSE {}

extract_rule_ids(payload) ==
    IF payload.root = "object" THEN payload.items[1].rule_id
    ELSE IF payload.root = "list"
    THEN UNION {IF item.isobj THEN item.rule_id ELSE {} : item \in Range(payload.items)}
    ELSE {}

extract_referenced_rule_ids(payload) ==
    IF payload.root = "object"
    THEN LET rules == payload.items[1].rules
             default_rules == payload.items[1].default_rules
         IN  (IF rules.islist
              THEN UNION {IF item.isobj THEN item.rule_id ELSE {} : item \in Range(rules.elems)}
              ELSE {})
             \cup
             (IF default_rules.islist THEN UNION Range(default_rules.elems) ELSE {})
    ELSE {}

\* ------------------------------------------------- validate_ge_suite_shape

\* str.strip(): leading and trailing whitespace (code point 32) removed.
RECURSIVE LStrip(_)
LStrip(s) == IF s # <<>> /\ Head(s) = 32 THEN LStrip(Tail(s)) ELSE s
RECURSIVE RStrip(_)
RStrip(s) ==
    IF s # <<>> /\ s[Len(s)] = 32 THEN RStrip(SubSeq(s, 1, Len(s) - 1)) ELSE s
Strip(s) == RStrip(LStrip(s))

\* The suite file: whether it exists, whether json.loads accepts it, whether
\* its root is a dict, its expectation_suite_name field, and its expectations
\* field, whose elements are "nonobj", "untyped" (a dict without
\* expectation_type) or "typed".
Suite(exists, json, isobj, name, expectations) ==
    [exists |-> exists, json |-> json, isobj |-> isobj, suite_name |-> name,
     expectations |-> expectations]

RECURSIVE ExpectationErrors(_, _, _)
ExpectationErrors(elems, path, k) ==
    IF k > Len(elems) THEN <<>>
    ELSE (IF elems[k] = "nonobj"
          THEN <<Error("expectation: expected object", path, k - 1, NoPointer, 0)>>
          ELSE IF elems[k] = "untyped"
          THEN <<Error("missing expectation_type", path, k - 1, NoPointer, 0)>>
          ELSE <<>>)
         \o ExpectationErrors(elems, path, k + 1)

\* validate_ge_suite_shape returning at the first violation.
validate_ge_suite_shape_FirstOnly(s, path) ==
    IF ~s.exists THEN <<>>
    ELSE IF ~s.json THEN <<Error("invalid JSON", path, -1, NoPointer, 0)>>
    ELSE IF ~s.isobj THEN <<Error("expected object at root", path, -1, NoPointer, 0)>>
    ELSE IF s.suite_name = NotStr \/ \E n \in s.suite_name : Strip(n) = <<>>
    THEN <<Error("suite name", path, -1, NoPointer, 0)>>
    ELSE IF ~s.expectations.islist
    THEN <<Error("expectations must be a list", path, -1, NoPointer, 0)>>
    ELSE ExpectationErrors(s.expectations.elems, path, 1)

validate_ge_suite_shape(s, path) ==
    IF ~s.exists THEN <<>>
    ELSE IF ~s.json THEN <<Error("invalid JSON", path, -1, NoPointer, 0)>>
    ELSE IF ~s.isobj THEN <<Error("expected object at root", path, -1, NoPointer, 0)>>
    ELSE (IF s.suite_name = NotStr \/ \E n \in s.suite_name : Strip(n) = <<>>
          THEN <<Error("suite name", path, -1, NoPointer, 0)>>
          ELSE <<>>)
         \o
         (IF ~s.expectations.islist
          THEN <<Error("expectations must be a list", path, -1, NoPointer, 0)>>
          ELSE ExpectationErrors(s.expectations.elems, path, 1))

\* -------------------------------------------------------------- find_files

IsSupportedFile(fs, path) == fs[path[1]][path[2]].entry = "file"

\* find_files without the sorted() of line 78.
RECURSIVE find_files_Unsorted(_, _, _)
find_files_Unsorted(paths, fs, order) ==
    IF paths = <<>> THEN <<>>
    ELSE LET base == Head(paths)
             listed == [i \in 1..Len(order[base]) |-> <<base, order[base][i]>>]
         IN  SelectSeq(listed, LAMBDA q : IsSupportedFile(fs, q))
             \o find_files_Unsorted(Tail(paths), fs, order)

\* find_files(paths): for each base in order, the entries of base.rglob("*")
\* (yielded in the order `order[base]`), sorted, those that are files with a
\* supported suffix kept.  A base that does not exist has no entries.
RECURSIVE find_files(_, _, _)
find_files(paths, fs, order) ==
    IF paths = <<>> THEN <<>>
    ELSE LET base == Head(paths)
             listed == [i \in 1..Len(order[base]) |-> <<base, order[base][i]>>]
         IN  SelectSeq(SortSeq(listed, LexLess), LAMBDA q : IsSupportedFile(fs, q))
             \o find_files(Tail(paths), fs, order)

\* ------------------------------------------------------------------- state

VARIABLES
    strict_references,   \* args.strict_references
    schemas,             \* per target: "missing", "unparseable" (json.loads
                         \* raises), "malformed" (JSON, but no schema: the
                         \* validator raises when applied), "valid"
    tree,                \* per search directory: its entries, by path order
    rglob,               \* per search directory: the order rglob yields them
    suite,               \* the expectation-suite file
    pc,                  \* where main is
    target,              \* index of the target of the outer loop
    files,               \* files of the current target still to process
    all_errors,
    warnings,
    known_rule_ids,
    referenced_rule_ids,
    output,              \* the lines printed
    exit_code,           \* main's return value, -1 before it returns
    loaded,              \* paths given to load_payload
    validated,           \* paths given to validate_document
    scanned              \* paths given to an extract_* function

inputs == <<strict_references, schemas, tree, rglob, suite>>
vars == <<strict_references, schemas, tree, rglob, suite, pc, target, files,
          all_errors, warnings, known_rule_ids, referenced_rule_ids, output,
          exit_code, loaded, validated, scanned>>

\* ------------------------------------------------------------------ inputs

R1 == <<1>>
R2 == <<2>>
R9 == <<9>>
R10 == <<1, 0>>

\* Rule files: a list of two clean rules; one rule with violations yielded
\* out of path order (and a rules list, which rule files are not scanned
\* for).
RuleList == Document("list", <<Obj(Str(R1), NotList, NotList, <<>>),
                               Obj(Str(R2), NotList, NotList, <<>>)>>)
RuleBad ==
    Document("object",
             <<Obj(Str(R9), List(<<Ref(Str(R10))>>), NotList,
                   <<Violation(<<2>>, 1), Violation(<<1, 0>>, 2),
                     Violation(<<1>>, 3), Violation(<<>>, 4)>>)>>)
RuleDocs == {Unparseable, Unsupported, RuleList, RuleBad}

\* Dataset-config and semantic-type files.
RefClean ==
    Document("object",
             <<Obj(Str(R2), List(<<Ref(Str(R9)), NonObjRef, Ref(Str(R1)), Ref(NotStr)>>),
                   NotList, <<>>)>>)
RefDefaults ==
    Document("object",
             <<Obj(NotStr, NotList, List(<<Str(R9), NotStr, Str(R10), Str(R2)>>),
                   <<Violation(<<3>>, 1)>>)>>)
RefList ==
    Document("list", <<Obj(NotStr, List(<<Ref(Str(R2))>>), List(<<Str(R1)>>), <<>>)>>)
RefDocs == {Unparseable, RefClean, RefDefaults, RefList}

DocsOf(b) == IF b \in {1, 2} THEN RuleDocs ELSE RefDocs

\* Entry counts per directory with at most MaxFiles entries in all.
Counts ==
    {c \in [Bases -> 0..MaxFiles] : c[1] + c[2] + c[3] + c[4] <= MaxFiles}

Trees ==
    UNION {{<<e1, e2, e3, e4>> : e1 \in [1..c[1] -> DocsOf(1)],
                                 e2 \in [1..c[2] -> DocsOf(2)],
                                 e3 \in [1..c[3] -> DocsOf(3)],
                                 e4 \in [1..c[4] -> DocsOf(4)]} : c \in Counts}

Orders(fs) ==
    {<<o1, o2, o3, o4>> : o1 \in Permutations(1..Len(fs[1])),
                          o2 \in Permutations(1..Len(fs[2])),
                          o3 \in Permutations(1..Len(fs[3])),
                          o4 \in Permutations(1..Len(fs[4]))}

SchemaStates == {"missing", "unparseable", "malformed", "valid"}

Schemas ==
    {s \in [Targets -> SchemaStates] :
        Cardinality({t \in Targets : s[t] # "valid"}) <= MaxBadSchemas}

NoSuite == Suite(FALSE, FALSE, FALSE, NotStr, NotList)
BadSuite == Suite(TRUE, TRUE, TRUE, Str(<<32>>), List(<<"untyped", "typed", "nonobj">>))
MainSuites == {NoSuite, BadSuite}

\* --------------------------------------------------------------------- main

\* The accumulators of lines 215-218, before the loop.
Fresh ==
    /\ all_errors = <<>>
    /\ warnings = <<>>
    /\ known_rule_ids = {}
    /\ referenced_rule_ids = {}
    /\ output = <<>>
    /\ exit_code = -1
    /\ loaded = {}
    /\ validated = {}
    /\ scanned = {}

Init ==
    /\ strict_references \in BOOLEAN
    /\ schemas \in Schemas
    /\ tree \in Trees
    /\ rglob \in Orders(tree)
    /\ suite \in MainSuites
    /\ pc = "target"
    /\ target = 1
    /\ files = <<>>
    /\ Fresh

\* The outer loop moves to the next target, or leaves the loop after the last.
AfterTarget ==
    /\ target' = target + 1
    /\ pc' = IF target = Cardinality(Targets) THEN "suite" ELSE "target"

\* Lines 220-232: the schema of the next target is read; a target without a
\* readable schema is skipped with one error, otherwise its files are found.
StartTarget ==
    /\ pc = "target"
    /\ IF schemas[target] = "missing"
       THEN /\ all_errors' = Append(all_errors,
                    Error("Missing schema file", SchemaPath(target), -1, NoPointer, 0))
            /\ files' = <<>>
            /\ AfterTarget
       ELSE IF schemas[target] = "unparseable"
       THEN /\ all_errors' = Append(all_errors,
                    Error("Unable to parse schema", SchemaPath(target), -1, NoPointer, 0))
            /\ files' = <<>>
            /\ AfterTarget
       ELSE LET found == find_files(SearchPaths(target), tree, rglob)
            IN  /\ files' = found
                /\ all_errors' = all_errors
                /\ IF found = <<>> THEN AfterTarget
                   ELSE pc' = "files" /\ target' = target
    /\ UNCHANGED <<inputs, warnings, known_rule_ids, referenced_rule_ids, output,
                   exit_code, loaded, validated, scanned>>

\* A break in place of the continue of line 245.
LoadFailed_Break(file_path, last) ==
    /\ all_errors' = Append(all_errors,
            Error("unable to parse document", file_path, -1, NoPointer, 0))
    /\ AfterTarget
    /\ UNCHANGED <<known_rule_ids, referenced_rule_ids, validated, scanned>>

\* Lines 241-245: load_payload raised; the error is recorded and the loop
\* continues with the next file.
LoadFailed(file_path, last) ==
    /\ all_errors' = Append(all_errors,
            Error("unable to parse document", file_path, -1, NoPointer, 0))
    /\ IF last THEN AfterTarget ELSE UNCHANGED <<pc, target>>
    /\ UNCHANGED <<known_rule_ids, referenced_rule_ids, validated, scanned>>

\* Line 247 with a validator built from JSON that is no schema: iter_errors
\* raises, and nothing in main catches it.
ValidatorRaised(file_path) ==
    /\ pc' = "crashed"
    /\ validated' = validated \cup {file_path}
    /\ UNCHANGED <<target, all_errors, known_rule_ids, referenced_rule_ids, scanned>>

\* Lines 249-252: which identifier set the document feeds.
Extracted(name, payload) ==
    IF name = "rule definitions"
    THEN /\ known_rule_ids' = known_rule_ids \cup extract_rule_ids(payload)
         /\ UNCHANGED referenced_rule_ids
    ELSE /\ referenced_rule_ids' =
              referenced_rule_ids \cup extract_referenced_rule_ids(payload)
         /\ UNCHANGED known_rule_ids

\* Lines 247-252.
Validated(file_path, payload, last) ==
    /\ all_errors' = all_errors \o validate_document(payload, file_path)
    /\ validated' = validated \cup {file_path}
    /\ scanned' = scanned \cup {file_path}
    /\ Extracted(TargetName(target), payload)
    /\ IF last THEN AfterTarget ELSE UNCHANGED <<pc, target>>

\* Lines 237-252: one file of the current target.
ProcessFile ==
    /\ pc = "files"
    /\ LET file_path == Head(files)
           payload == tree[file_path[1]][file_path[2]]
           last == Len(files) = 1
       IN  /\ loaded' = loaded \cup {file_path}
           /\ files' = Tail(files)
           /\ IF payload.load = "error" THEN LoadFailed(file_path, last)
              ELSE IF schemas[target] = "malformed" /\ UsesValidator(payload)
              THEN ValidatorRaised(file_path)
              ELSE Validated(file_path, payload, last)
    /\ UNCHANGED <<inputs, warnings, output, exit_code>>

\* Lines 254-261.
CheckSuite ==
    /\ pc = "suite"
    /\ all_errors' = all_errors \o validate_ge_suite_shape(suite, SuitePath)
    /\ pc' = "references"
    /\ UNCHANGED <<inputs, target, files, warnings, known_rule_ids,
                   referenced_rule_ids, output, exit_code, loaded, validated, scanned>>

missing_refs_Unsorted(referenced, known) ==
    LET sorted == SortedSet(referenced \ known)
    IN  [k \in 1..Len(sorted) |-> sorted[Len(sorted) + 1 - k]]

\* Lines 263-266.
missing_refs(referenced, known) == SortedSet(referenced \ known)

CheckReferences ==
    /\ pc = "references"
    /\ LET missing == missing_refs(referenced_rule_ids, known_rule_ids)
       IN  warnings' = warnings \o
               [k \in 1..Len(missing) |-> [kind |-> "Referenced rule ID not found", id |-> missing[k]]]
    /\ pc' = "report"
    /\ UNCHANGED <<inputs, target, files, all_errors, known_rule_ids,
                   referenced_rule_ids, output, exit_code, loaded, validated, scanned>>

\* A printed line: what it is, the four counts (summary only) and which
\* warning or error it shows (0 otherwise).
Line(head, counts, n) == [head |-> head, counts |-> counts, n |-> n]

\* Lines 268-289: what is printed.
Printed(errors, warns, known, referenced, strict) ==
    <<Line("summary", <<Cardinality(known), Cardinality(referenced),
                        Len(errors), Len(warns)>>, 0)>>
    \o (IF warns # <<>>
        THEN <<Line("Warnings:", <<>>, 0)>> \o [k \in 1..Len(warns) |-> Line("warning", <<>>, k)]
        ELSE <<>>)
    \o (IF errors # <<>>
        THEN <<Line("Errors:", <<>>, 0)>> \o [k \in 1..Len(errors) |-> Line("error", <<>>, k)]
        ELSE IF strict /\ warns # <<>> THEN <<>>
        ELSE <<Line("Validation passed.", <<>>, 0)>>)

ExitStatus_IgnoresStrict(errors, warns, strict) ==
    IF errors # <<>> THEN 1 ELSE 0

\* Lines 279-289: what main returns.
ExitStatus(errors, warns, strict) ==
    IF errors # <<>> THEN 1
    ELSE IF strict /\ warns # <<>> THEN 1
    ELSE 0

Report ==
    /\ pc = "report"
    /\ output' = output \o Printed(all_errors, warnings, known_rule_ids,
                                   referenced_rule_ids, strict_references)
    /\ exit_code' = ExitStatus(all_errors, warnings, strict_references)
    /\ pc' = "done"
    /\ UNCHANGED <<inputs, target, files, all_errors, warnings, known_rule_ids,
                   referenced_rule_ids, loaded, validated, scanned>>

Next == StartTarget \/ ProcessFile \/ CheckSuite \/ CheckReferences \/ Report

Spec == Init /\ [][Next]_vars

\* ------------------------------------- validate_ge_suite_shape on its own

SuiteNames == {NotStr, Str(<<>>), Str(<<32, 32>>), Str(<<115>>), Str(<<32, 115, 32>>)}

ExpectationLists ==
    {NotList} \cup
    {List(e) : e \in UNION {[1..n -> {"nonobj", "untyped", "typed"}] : n \in 0..MaxExpectations}}

AllSuites ==
    {NoSuite, Suite(TRUE, FALSE, FALSE, NotStr, NotList),
     Suite(TRUE, TRUE, FALSE, NotStr, NotList)}
    \cup {Suite(TRUE, TRUE, TRUE, n, e) : n \in SuiteNames, e \in ExpectationLists}

NoTree == <<(<<>>), <<>>, <<>>, <<>>>>

\* main after the loop over the targets of a tree without files, for any
\* suite file.
InitSuite ==
    /\ strict_references \in BOOLEAN
    /\ schemas = [t \in Targets |-> "valid"]
    /\ tree = NoTree
    /\ rglob = NoTree
    /\ suite \in AllSuites
    /\ pc = "suite"
    /\ target = Cardinality(Targets) + 1
    /\ files = <<>>
    /\ Fresh

NextSuite == CheckSuite \/ CheckReferences \/ Report

SpecSuite == InitSuite /\ [][NextSuite]_vars

\* ------------------------------------------- validate_document on its own

DocPaths == {<<>>, <<1>>, <<1, 0>>, <<2>>}

\* What the validator may yield for one value: up to MaxViolations
\* violations, in any order of their paths, told apart by their messages.
ViolationLists ==
    UNION {{[k \in 1..n |-> Violation(ps[k], k)] : ps \in [1..n -> DocPaths]} :
              n \in 0..MaxViolations}

DocItems ==
    {NonObj(<<Violation(<<>>, 1)>>),
     Obj(Str(R1), NotList, NotList, <<>>),
     Obj(NotStr, NotList, NotList,
         <<Violation(<<2>>, 1), Violation(<<1, 0>>, 2), Violation(<<1>>, 3)>>),
     Obj(Str(R2), List(<<Ref(Str(R9))>>), List(<<Str(R10)>>),
         <<Violation(<<1>>, 1), Violation(<<>>, 2)>>)}

AllDocs ==
    {Document("list", items) : items \in UNION {[1..n -> DocItems] : n \in 0..MaxItems}}
    \cup {Document("object", <<Obj(Str(R1), List(<<Ref(Str(R9))>>), NotList, v)>>) :
             v \in ViolationLists}
    \cup {Scalar(v) : v \in {w \in ViolationLists : Len(w) <= 1}}

\* main over a tree with one document, as a rule file or a dataset config.
InitDoc ==
    /\ strict_references \in BOOLEAN
    /\ schemas = [t \in Targets |-> "valid"]
    /\ \E d \in AllDocs :
          tree \in {<<(<<d>>), <<>>, <<>>, <<>>>>, <<(<<>>), <<>>, <<d>>, <<>>>>}
    /\ rglob \in Orders(tree)
    /\ suite = NoSuite
    /\ pc = "target"
    /\ target = 1
    /\ files = <<>>
    /\ Fresh

SpecDoc == InitDoc /\ [][Next]_vars

\* ------------------------------------------------- vocabulary of the claims

\* a sorts before b: at the first position where they differ a has the
\* smaller token, or a ends there and b does not.
Precedes(a, b) ==
    \E k \in 1..(Len(b)) :
        /\ \A i \in 1..(k - 1) : i <= Len(a) /\ a[i] = b[i]
        /\ k - 1 <= Len(a)
        /\ (k > Len(a) \/ a[k] < b[k])

Doc(p) == tree[p[1]][p[2]]

\* The supported files of one search directory, in path order.
BaseFiles(b) ==
    SelectSeq([n \in 1..Len(tree[b]) |-> <<b, n>>], LAMBDA q : Doc(q).entry = "file")

\* The supported files of a target, in path order within each directory.
TargetFiles(t) ==
    IF t = 1 THEN BaseFiles(1) \o BaseFiles(2)
    ELSE IF t = 2 THEN BaseFiles(3) ELSE BaseFiles(4)

AllFiles == Range(TargetFiles(1)) \cup Range(TargetFiles(2)) \cup Range(TargetFiles(3))

\* The files of a target that are parsed and handed on: the schema was read
\* and the file loads.
Processed(t) ==
    IF schemas[t] \in {"valid", "malformed"}
    THEN {q \in Range(TargetFiles(t)) : Doc(q).load = "ok"}
    ELSE {}

\* The lines a file contributes when its target is processed.
FileLines(q) ==
    IF Doc(q).load = "error"
    THEN <<Error("unable to parse document", q, -1, NoPointer, 0)>>
    ELSE validate_document(Doc(q), q)

RECURSIVE LinesOf(_)
LinesOf(fs) == IF fs = <<>> THEN <<>> ELSE FileLines(Head(fs)) \o LinesOf(Tail(fs))

\* String-valued rule_id fields of the root dict or of the dicts of the root list.
DeclaredIn(d) ==
    IF d.root \in {"object", "list"}
    THEN {id \in UNION {x.rule_id : x \in Range(d.items)} :
             \E x \in Range(d.items) : x.isobj /\ id \in x.rule_id}
    ELSE {}

\* Identifiers a root dict refers to, through rules or default_rules.
MentionedIn(d) ==
    IF d.root = "object"
    THEN LET o == d.items[1]
         IN  {id \in UNION ({e.rule_id : e \in Range(o.rules.elems)}
                            \cup Range(o.default_rules.elems)) :
                 \/ o.rules.islist /\ \E e \in Range(o.rules.elems) : e.isobj /\ id \in e.rule_id
                 \/ o.default_rules.islist /\ \E e \in Range(o.default_rules.elems) : id \in e}
    ELSE {}

AfterLoop == pc \in {"suite", "references", "report", "done"}

\* The lines of all_errors that are not about the suite file.
LoopErrors == SelectSeq(all_errors, LAMBDA e : e.path # SuitePath)

StrictlySorted(ids) ==
    \A i, j \in DOMAIN ids : i < j => Precedes(ids[i], ids[j])

WarningIds == [k \in DOMAIN warnings |-> warnings[k].id]

\* ------------------------------------------------------------------ claims

\* C1: whenever main returns, its exit status is 1 exactly when all_errors is
\* non-empty, or strict-references mode is on and warnings is non-empty, and
\* it is 0 otherwise; so with no error and a reference warning it is 0
\* without strict mode and 1 with it.
C1_ExitStatus ==
    pc = "done" =>
        /\ exit_code \in {0, 1}
        /\ exit_code = 1 <=>
              (Len(all_errors) > 0 \/ (strict_references /\ Len(warnings) > 0))

C1_Witness ==
    /\ pc = "done"
    /\ all_errors = <<>>
    /\ Len(warnings) >= 1
    /\ strict_references
    /\ exit_code = 1

\* C2: once the targets are processed and the references checked, warnings
\* holds one warning per identifier of referenced minus known, in sorted
\* order and whatever the number of documents that mention it, and none for
\* any other identifier; the reference check leaves all_errors as it was.
C2_WarningsState ==
    pc \in {"report", "done"} =>
        /\ Range(WarningIds) = referenced_rule_ids \ known_rule_ids
        /\ StrictlySorted(WarningIds)
        /\ \A k \in DOMAIN warnings : warnings[k].kind = "Referenced rule ID not found"

C2_Warnings ==
    /\ []C2_WarningsState
    /\ [][pc = "references" => all_errors' = all_errors]_vars

C2_Witness ==
    /\ pc = "done"
    /\ Len(warnings) >= 2
    /\ \E k \in DOMAIN warnings : \E q, r \in scanned :
          /\ q # r
          /\ warnings[k].id \in MentionedIn(Doc(q)) \cap MentionedIn(Doc(r))

\* C8: at the end of the loop known_rule_ids is exactly the set of
\* string-valued rule_id fields of the root dict, or of the dicts of the root
\* list, of the rule-definition documents processed; every referenced
\* identifier comes from a dataset-config or semantic-type document.  A rule
\* file that is a list of two clean rules R1 and R2 gives known = {R1, R2}
\* and no error.
C8_KnownIds ==
    AfterLoop =>
        /\ known_rule_ids = UNION {DeclaredIn(Doc(q)) : q \in Processed(1)}
        /\ \A id \in referenced_rule_ids :
              \E q \in Processed(2) \cup Processed(3) : id \in MentionedIn(Doc(q))
        /\ (tree = <<(<<RuleList>>), <<>>, <<>>, <<>>>> /\ \A t \in Targets : schemas[t] = "valid")
              => (known_rule_ids = {R1, R2} /\ LoopErrors = <<>>)

C8_Witness ==
    /\ pc = "done"
    /\ tree = <<(<<RuleList>>), <<>>, <<>>, <<>>>>
    /\ \A t \in Targets : schemas[t] = "valid"
    /\ known_rule_ids = {R1, R2}
    /\ all_errors = <<>>

\* The lines a target contributes, from the tree alone.
TargetLines(t) ==
    IF schemas[t] = "missing"
    THEN <<Error("Missing schema file", SchemaPath(t), -1, NoPointer, 0)>>
    ELSE IF schemas[t] = "unparseable"
    THEN <<Error("Unable to parse schema", SchemaPath(t), -1, NoPointer, 0)>>
    ELSE LinesOf(TargetFiles(t))

\* The tree makes the validator raise: some target's schema is JSON but no
\* schema, and one of its files holds a dict to validate.
TreeRaises ==
    \E t \in Targets :
        schemas[t] = "malformed" /\ \E q \in Processed(t) : UsesValidator(Doc(q))

TreeKnown == UNION {DeclaredIn(Doc(q)) : q \in Processed(1)}
TreeReferenced == UNION {MentionedIn(Doc(q)) : q \in Processed(2) \cup Processed(3)}
TreeErrors ==
    TargetLines(1) \o TargetLines(2) \o TargetLines(3)
    \o validate_ge_suite_shape(suite, SuitePath)

\* C9: the error sequence, the warning sequence and the exit code of a run are
\* functions of the file tree and the flags alone: they do not depend on the
\* order in which rglob yields the entries, so two runs over the same tree
\* with the same flags agree.
C9_Deterministic ==
    /\ pc = "crashed" => TreeRaises
    /\ pc = "done" =>
          /\ ~TreeRaises
          /\ all_errors = TreeErrors
          /\ Range(WarningIds) = TreeReferenced \ TreeKnown
          /\ StrictlySorted(WarningIds)
          /\ exit_code =
                (IF TreeErrors # <<>> \/ (strict_references /\ TreeReferenced \ TreeKnown # {})
                 THEN 1 ELSE 0)

C9_Witness ==
    /\ pc = "done"
    /\ \E b \in Bases :
          /\ rglob[b] = <<2, 1>>
          /\ Len(BaseFiles(b)) = 2
          /\ \A q \in Range(BaseFiles(b)) : FileLines(q) # <<>>
    /\ Len(warnings) >= 2

\* C3 (as claimed): a target whose schema file is missing or is not a valid
\* schema definition has, when the run ends, exactly one error, none of its
\* files is ever loaded, validated or scanned, and the files of the other
\* targets give the lines they give anyway.
C3_SchemaSkipsTarget ==
    \A t \in Targets :
        schemas[t] # "valid" =>
            /\ (loaded \cup validated \cup scanned) \cap Range(TargetFiles(t)) = {}
            /\ pc \in {"done", "crashed"} =>
                  Len(SelectSeq(all_errors,
                        LAMBDA e : e.path = SchemaPath(t) \/ e.path \in Range(TargetFiles(t)))) = 1
            /\ pc = "done" =>
                  \A u \in Targets :
                      schemas[u] = "valid" =>
                          SelectSeq(all_errors, LAMBDA e : e.path \in Range(TargetFiles(u)))
                              = LinesOf(TargetFiles(u))

\* A clean document: a dict, or a list of dicts, without violations.
ValidDoc(d) ==
    /\ d.load = "ok"
    /\ d.root \in {"object", "list"}
    /\ \A x \in Range(d.items) : x.isobj /\ x.viol = <<>>

\* The files find_files returns during the run: those of the targets whose
\* schema was read.
Discovered ==
    UNION {Range(TargetFiles(t)) : t \in {u \in Targets : schemas[u] = "valid"}}

\* The lines of all_errors about discovered files.
FileErrors == SelectSeq(all_errors, LAMBDA e : e.path \in AllFiles)

\* q is the one discovered file that does not load and every other
\* discovered file is clean against its target's schema.
OnlyBadFile(q) ==
    /\ \A t \in Targets : schemas[t] # "malformed"
    /\ q \in Discovered
    /\ Doc(q).load = "error"
    /\ \A r \in Discovered \ {q} : ValidDoc(Doc(r))

\* C4: when exactly one discovered file fails to load and the others are
\* clean, the files give exactly one error, the parse error of that file; the
\* file is neither validated nor scanned for identifiers, and every other
\* file, of the same target and of the later ones, is validated and scanned.
\* With every schema read and no suite-shape error the run's error count is 1.
C4_OneParseError ==
    \A q \in AllFiles :
        (AfterLoop /\ OnlyBadFile(q)) =>
            /\ FileErrors = <<Error("unable to parse document", q, -1, NoPointer, 0)>>
            /\ q \notin validated \cup scanned
            /\ validated = Discovered \ {q}
            /\ scanned = Discovered \ {q}
            /\ known_rule_ids =
                  UNION {DeclaredIn(Doc(r)) : r \in (Discovered \cap Range(TargetFiles(1))) \ {q}}
            /\ referenced_rule_ids =
                  UNION {MentionedIn(Doc(r)) : r \in (Discovered \ Range(TargetFiles(1))) \ {q}}
            /\ (/\ pc = "done"
                /\ \A t \in Targets : schemas[t] = "valid"
                /\ validate_ge_suite_shape(suite, SuitePath) = <<>>)
                  => Len(all_errors) = 1

C4_Witness ==
    /\ pc = "done"
    /\ Len(all_errors) = 1
    /\ \E q, r \in AllFiles :
          /\ OnlyBadFile(q)
          /\ q[1] = r[1] /\ q[2] < r[2]
          /\ r \in validated
          /\ DeclaredIn(Doc(r)) \cup MentionedIn(Doc(r)) # {}

\* C5 (as claimed): every run that has stopped has printed the summary with
\* the four counts and every accumulated warning and error, and has returned
\* one exit code; "Validation passed." is printed iff that code is 0.
C5_AlwaysReports ==
    pc \in {"done", "crashed"} =>
        /\ output # <<>>
        /\ output[1] = Line("summary", <<Cardinality(known_rule_ids),
                                         Cardinality(referenced_rule_ids),
                                         Len(all_errors), Len(warnings)>>, 0)
        /\ \A k \in DOMAIN warnings : \E i \in DOMAIN output : output[i] = Line("warning", <<>>, k)
        /\ \A k \in DOMAIN all_errors : \E i \in DOMAIN output : output[i] = Line("error", <<>>, k)
        /\ exit_code \in {0, 1}
        /\ (\E i \in DOMAIN output : output[i].head = "Validation passed.") <=> exit_code = 0

\* The lines of all_errors that carry list index i.
AtIndex(i) == SelectSeq(all_errors, LAMBDA e : e.index = i)

OfKind(kind) == SelectSeq(all_errors, LAMBDA e : e.kind = kind)

\* C6: for a present, JSON-parseable, dict-rooted suite file every violation
\* is collected: an invalid expectation_suite_name gives one error whether or
\* not expectations is a list; expectations that is no list gives one error
\* and no per-element error; otherwise each element gives one error if it is
\* no dict or lacks expectation_type, and none if it has it.  An absent file
\* gives none.  {name: "s", expectations: [{}]} gives exactly one error, at
\* expectations/0.
C6_SuiteShape ==
    pc \in {"references", "report", "done"} =>
        /\ ~suite.exists => all_errors = <<>>
        /\ (suite.exists /\ suite.json /\ suite.isobj) =>
              LET nameBad ==
                      \/ suite.suite_name = {}
                      \/ \E n \in suite.suite_name : \A i \in DOMAIN n : n[i] = 32
                  elems == suite.expectations.elems
              IN  /\ Len(OfKind("suite name")) = (IF nameBad THEN 1 ELSE 0)
                  /\ Len(OfKind("expectations must be a list")) =
                        (IF suite.expectations.islist THEN 0 ELSE 1)
                  /\ ~suite.expectations.islist =>
                        \A e \in Range(all_errors) : e.index = -1
                  /\ suite.expectations.islist =>
                        \A k \in DOMAIN elems :
                            AtIndex(k - 1) =
                                (IF elems[k] = "nonobj"
                                 THEN <<Error("expectation: expected object", SuitePath,
                                              k - 1, NoPointer, 0)>>
                                 ELSE IF elems[k] = "untyped"
                                 THEN <<Error("missing expectation_type", SuitePath,
                                              k - 1, NoPointer, 0)>>
                                 ELSE <<>>)
                  /\ \A e \in Range(all_errors) :
                        \/ e.index = -1 /\ e.kind \in {"suite name", "expectations must be a list"}
                        \/ e.index + 1 \in DOMAIN elems
        /\ suite = Suite(TRUE, TRUE, TRUE, Str(<<115>>), List(<<"untyped">>)) =>
              all_errors = <<Error("missing expectation_type", SuitePath, 0, NoPointer, 0)>>

C6_Witness ==
    /\ pc = "references"
    /\ suite = Suite(TRUE, TRUE, TRUE, Str(<<32, 32>>), List(<<"untyped", "typed", "nonobj">>))
    /\ Len(all_errors) = 3

\* The one document of the tree and its path.
TheFile == CHOOSE q \in AllFiles : TRUE

\* C7: a parsed document whose root is neither a dict nor a list gives exactly
\* one structural error and no violation of the schema, whatever the schema
\* would say of the value, and adds no identifier to known or referenced.
C7_ScalarRoot ==
    (AllFiles # {} /\ TheFile \in validated /\ Doc(TheFile).root = "other") =>
        /\ all_errors = <<Error("expected object or list", TheFile, -1, NoPointer, 0)>>
        /\ OfKind("violation") = <<>>
        /\ known_rule_ids = {}
        /\ referenced_rule_ids = {}

C7_Witness ==
    /\ pc = "done"
    /\ AllFiles # {}
    /\ Doc(TheFile).root = "other"
    /\ Doc(TheFile).items[1].viol # <<>>
    /\ Len(all_errors) = 1

\* C10: for a list-rooted document the lines come in ascending element index;
\* an element that is no dict gives exactly one structural error and none of
\* the violations the schema would find in it; every dict, also after a
\* non-dict, gives all its violations, ordered by their paths compared token
\* by token, a strict prefix first.
C10_ListOrder ==
    (AllFiles # {} /\ TheFile \in validated /\ Doc(TheFile).root = "list") =>
        LET items == Doc(TheFile).items
        IN  /\ \A i, j \in DOMAIN all_errors :
                  i < j => all_errors[i].index <= all_errors[j].index
            /\ \A e \in Range(all_errors) : e.path = TheFile /\ e.index + 1 \in DOMAIN items
            /\ \A k \in DOMAIN items :
                  LET lines == AtIndex(k - 1)
                  IN  IF ~items[k].isobj
                      THEN lines = <<Error("expected object", TheFile, k - 1, NoPointer, 0)>>
                      ELSE /\ Len(lines) = Len(items[k].viol)
                           /\ {<<e.kind, e.pointer, e.msg>> : e \in Range(lines)} =
                                 {<<"violation", [root |-> "$", tokens |-> v.path], v.msg>> :
                                     v \in Range(items[k].viol)}
                           /\ \A i, j \in DOMAIN lines :
                                 i < j => ~Precedes(lines[j].pointer.tokens,
                                                    lines[i].pointer.tokens)

C10_Witness ==
    /\ pc = "done"
    /\ AllFiles # {}
    /\ Doc(TheFile).root = "list"
    /\ Len(Doc(TheFile).items) >= 2
    /\ ~Doc(TheFile).items[1].isobj
    /\ Len(Doc(TheFile).items[2].viol) >= 3
    /\ Precedes(Doc(TheFile).items[2].viol[2].path, Doc(TheFile).items[2].viol[1].path)
    /\ Len(all_errors) >= 4

====
